---- MODULE Spec2Model ----
(***************************************************************************)
(* Model of scan.mjs: a batch client that fetches one payload per          *)
(* identifier (FID) under a concurrency gate with unbounded retry, scores  *)
(* and ranks the payloads, writes index.csv, optionally requests mint      *)
(* signatures for a target subset, and rewrites index.csv.                 *)
(*                                                                         *)
(* Numbers are integers in units of 10^-7, so that the 6-decimal rounding  *)
(* of Number(score.toFixed(6)) is a real operation (a multiple of 10).     *)
(***************************************************************************)
EXTENDS Integers, Sequences, FiniteSets, Bags, TLC

VARIABLES
  inputExists,  \* fs.existsSync(INFILE)
  lines,        \* the lines of INFILE
  CONCURRENCY, ADDR, RARE_ONLY, TOP_K, MIN_SCORE,   \* configuration
  pc,           \* position of the top-level module code
  exitCode,     \* <<>> while running, else <<the process exit code>>
  dirCreated,   \* OUTDIR exists
  fids,         \* identifiers read from INFILE
  activeCount,  \* p-limit: tasks started and not yet settled
  queue,        \* p-limit: FIFO of task numbers waiting for the gate
  gen,          \* generate tasks: [st, backoff, resp, res]
  sig,          \* sign tasks:     [st, backoff, resp, res]
  metas,        \* scored entries (ranked after the sort)
  targets,      \* entries selected for signing
  files,        \* artifact paths written in OUTDIR
  issued,       \* remote operations started: <<kind, task number>>
  indexFile,    \* content of index.csv (rows)
  indexOpen,    \* a write stream on index.csv is open and unfinished
  indexWrites,  \* completed writes of index.csv
  firstIndex,   \* the rows the initial write of index.csv left on disk
  writes,       \* bag of artifact writes: <<kind, task number, path>>
  payload,      \* scorer harness: the payload under test
  scored        \* scorer harness: result of rarityScore, or NotScored

vars == <<inputExists, lines, CONCURRENCY, ADDR, RARE_ONLY, TOP_K, MIN_SCORE,
          pc, exitCode, dirCreated, fids, activeCount, queue, gen, sig,
          metas, targets, files, issued, indexFile, indexOpen, indexWrites,
          firstIndex, writes, payload, scored>>

pipeVars == <<inputExists, lines, CONCURRENCY, ADDR, RARE_ONLY, TOP_K,
              MIN_SCORE, pc, exitCode, dirCreated, fids, activeCount, queue,
              gen, sig, metas, targets, files, issued, indexFile, indexOpen,
              indexWrites, firstIndex, writes>>

scoreVars == <<payload, scored>>

(***************************************************************************)
(* Bounds of the model.                                                    *)
(***************************************************************************)
MaxLines == 2     \* lines in the input file
MaxTraits == 2    \* traits in a payload of the scorer harness

(***************************************************************************)
(* JavaScript values: null/undefined, numbers (NaN apart) and strings.  A  *)
(* string is kept as what the code asks of it: whether it ends in '%' and  *)
(* what parseFloat makes of it.                                            *)
(***************************************************************************)
Null == [t |-> "null", v |-> 0, pct |-> FALSE]
NaN == [t |-> "nan", v |-> 0, pct |-> FALSE]
Num(n) == [t |-> "num", v |-> n, pct |-> FALSE]
StrNum(n, endsPct) == [t |-> "str", v |-> n, pct |-> endsPct]
StrJunk(endsPct) == [t |-> "junk", v |-> 0, pct |-> endsPct]

IsNumber(x) == x.t \in {"num", "nan"}          \* typeof x === 'number'
IsString(x) == x.t \in {"str", "junk"}         \* typeof x === 'string'
Coalesce(a, b) == IF a = Null THEN b ELSE a    \* a ?? b
ParseFloat(x) == IF x.t = "str" THEN Num(x.v) ELSE NaN

Min(a, b) == IF a < b THEN a ELSE b
Max(a, b) == IF a > b THEN a ELSE b

(***************************************************************************)
(* Numbers: One is 1.0.                                                    *)
(***************************************************************************)
One == 1000 * 10000
DefaultWeight == One \div 2                     \* score += 0.5

Abs(x) == IF x < 0 THEN 0 - x ELSE x

\* Number(x.toFixed(6)): x rounded to 6 decimals, halves away from zero.
Round6(x) == (IF x < 0 THEN 0 - 1 ELSE 1) * (((Abs(x) + 5) \div 10) * 10)

\* -Math.log(percent / 100), for the percents the model uses.
NegLog(percent) ==
  CASE percent = 10 * One  -> 23025851
    [] percent = 25 * One  -> 13862944
    [] percent = 50 * One  -> 6931472
    [] percent = 100 * One -> 0
    [] percent = 200 * One -> 0 - 6931472

Percents == {10 * One, 25 * One, 50 * One, 100 * One, 200 * One}

(***************************************************************************)
(* Payloads.  A raw trait carries the fields normalizeTraits reads; a      *)
(* payload carries rarityScore, the two trait containers and the image.    *)
(***************************************************************************)
RawTrait(p, pg, fr, rp, r, s) ==
  [percent |-> p, percentage |-> pg, frequency |-> fr, rarityPercent |-> rp,
   rarity |-> r, score |-> s]

NotArray == [arr |-> FALSE, items |-> <<>>]
Array(items) == [arr |-> TRUE, items |-> items]

\* image: "none" (no generatedImage / imageBase64), "b64", or "bad" (a value
\* Buffer.from rejects).
Payload(rs, attrs, trs, img) ==
  [rarityScore |-> rs, attributes |-> attrs, traits |-> trs, image |-> img]

SeqMap(F(_), s) == [i \in 1..Len(s) |-> F(s[i])]

RECURSIVE SeqSum(_)
SeqSum(s) == IF s = <<>> THEN 0 ELSE Head(s) + SeqSum(Tail(s))

NormalizeTrait(t) ==
  LET percent == Coalesce(t.percent, Coalesce(t.percentage,
                   Coalesce(t.frequency, Coalesce(t.rarityPercent, Null))))
      rarity == Coalesce(t.rarity, Coalesce(t.score, Null))
  IN [percent |-> IF IsString(percent) /\ percent.pct
                    THEN ParseFloat(percent)
                    ELSE IF IsNumber(percent) THEN percent ELSE Null,
      rarity |-> rarity]

normalizeTraits(data) ==
  LET raw == IF data.attributes.arr THEN data.attributes.items
             ELSE IF data.traits.arr THEN data.traits.items ELSE <<>>
  IN SeqMap(NormalizeTrait, raw)

\* A trait without percent or rarity adds nothing (faulty variant).
TraitWeightNoDefault(t) ==
  IF t.percent.t = "num" /\ t.percent.v > 0 THEN NegLog(t.percent.v)
  ELSE IF IsNumber(t.rarity) THEN t.rarity.v
  ELSE 0

\* Math.log(p) without the negation (faulty variant).
TraitWeightPlainLog(t) ==
  IF t.percent.t = "num" /\ t.percent.v > 0 THEN 0 - NegLog(t.percent.v)
  ELSE IF IsNumber(t.rarity) THEN t.rarity.v
  ELSE DefaultWeight

\* A trait whose percent is a number but not positive is skipped (faulty
\* variant).
TraitWeightSkipInvalid(t) ==
  IF t.percent.t = "num" /\ t.percent.v > 0 THEN NegLog(t.percent.v)
  ELSE IF t.percent.t = "num" THEN 0
  ELSE IF IsNumber(t.rarity) THEN t.rarity.v
  ELSE DefaultWeight

\* The contribution of one normalized trait (lines 74-82).
TraitWeight(t) ==
  IF t.percent.t = "num" /\ t.percent.v > 0 THEN NegLog(t.percent.v)
  ELSE IF IsNumber(t.rarity) THEN t.rarity.v
  ELSE DefaultWeight

\* rarityScore that rounds data.rarityScore too (faulty variant).
rarityScoreRounded(data) ==
  Round6(IF IsNumber(data.rarityScore) THEN data.rarityScore.v
         ELSE SeqSum(SeqMap(TraitWeight, normalizeTraits(data))))

rarityScore(data) ==
  IF IsNumber(data.rarityScore) THEN data.rarityScore.v
  ELSE Round6(SeqSum(SeqMap(TraitWeight, normalizeTraits(data))))

(***************************************************************************)
(* Input file and configuration.                                           *)
(***************************************************************************)
LineTokens == {"A", "B", " "}
Trim(l) == IF l = " " THEN "" ELSE l             \* s.trim()

\* The sequences over S of length at most n.
SeqsUpTo(S, n) == UNION {[1..k -> S] : k \in 0..n}

NonBlank(l) == l # ""

\* split(/\r?\n/).map(s => s.trim()).filter(Boolean), deduplicated (faulty variant).
ParseFidsUnique(ls) ==
  LET t == SeqMap(Trim, ls)
      First(i) == t[i] # "" /\ \A j \in 1..(i - 1) : t[j] # t[i]
      RECURSIVE Keep(_)
      Keep(i) == IF i > Len(t) THEN <<>>
                 ELSE (IF First(i) THEN <<t[i]>> ELSE <<>>) \o Keep(i + 1)
  IN Keep(1)

\* split(/\r?\n/).map(s => s.trim()).filter(Boolean)
ParseFids(ls) == SelectSeq(SeqMap(Trim, ls), NonBlank)

(***************************************************************************)
(* Artifact paths in OUTDIR, and path.basename.                            *)
(***************************************************************************)
Blank == <<>>                                    \* the empty string of a path column
JsonPath(fid) == <<"OUTDIR", <<"warplet", fid, "json">>>>
PngPath(fid) == <<"OUTDIR", <<"warplet", fid, "png">>>>
SignPath(fid) == <<"OUTDIR", <<"sign", fid, "json">>>>
Basename(path) == path[2]

\* maybeSavePng: the path written, or Blank for null.
maybeSavePng(data, fid) == IF data.image = "b64" THEN PngPath(fid) ELSE Blank

(***************************************************************************)
(* The remote service: what one httpPost can yield.                        *)
(***************************************************************************)
NoData == [empty |-> TRUE]
Response(st, d) == [threw |-> FALSE, status |-> st, data |-> d]
Threw == [threw |-> TRUE, status |-> 0, data |-> NoData]
NoResp == [threw |-> FALSE, status |-> 0, data |-> NoData]

PHigh == Payload(Num(5 * One), Array(<<RawTrait(Num(50 * One), Null, Null, Null, Null, Null)>>),
                 NotArray, "b64")
PLow == Payload(Null, Array(<<RawTrait(Num(50 * One), Null, Null, Null, Null, Null)>>),
                NotArray, "none")
SigData == [signature |-> "0xSIG"]

GenResponses == {Response(200, PHigh), Response(200, PLow), Response(200, NoData),
                 Response(201, PHigh), Threw}
SigResponses == {Response(200, SigData), Response(200, NoData),
                 Response(201, SigData), Threw}

\* A body with any status counts as success (faulty variant).
SucceededAnyStatus(r) == ~r.threw /\ r.data # NoData

\* status === 200 && data
Succeeded(r) == ~r.threw /\ r.status = 200 /\ r.data # NoData

(***************************************************************************)
(* Backoff.                                                                *)
(***************************************************************************)
InitialBackoff == 10
maxBack == 50
GenFloor == 500
SignFloor == 800

\* The clamps applied in the other order, so that the floor wins (faulty
\* variant).
NextBackoffFloorWins(backoff, floor) ==
  Max(floor, Min(maxBack, (backoff * 3) \div 2))

\* Math.min(maxBack, Math.max(floor, Math.floor(backoff * 1.5)))
NextBackoff(backoff, floor) == Min(maxBack, Max(floor, (backoff * 3) \div 2))

(***************************************************************************)
(* Scored entries, ranking, target selection, index rows.                  *)
(***************************************************************************)
traitsSummary(data) == SeqMap(LAMBDA t : t.percent, normalizeTraits(data))

\* What generateMeta returns on success.
GenResult(fid, data) ==
  [ok |-> TRUE, data |-> data, jsonPath |-> JsonPath(fid),
   pngPath |-> maybeSavePng(data, fid)]

\* The entry a generate task returns; pos is the identifier's place in the
\* input (the object's identity, which no operation of the program reads).
Entry(fid, res, pos) ==
  [fid |-> fid, score |-> rarityScore(res.data), summary |-> traitsSummary(res.data),
   jsonPath |-> res.jsonPath, pngPath |-> res.pngPath, data |-> res.data,
   pos |-> pos]

\* An unstable descending sort (an entry goes before its equals) (faulty variant).
SortUnstable(s) ==
  LET RECURSIVE Ins(_, _)
      Ins(e, t) == IF t = <<>> THEN <<e>>
                   ELSE IF Head(t).score <= e.score THEN <<e>> \o t
                   ELSE <<Head(t)>> \o Ins(e, Tail(t))
      RECURSIVE Go(_, _)
      Go(i, acc) == IF i > Len(s) THEN acc ELSE Go(i + 1, Ins(s[i], acc))
  IN Go(1, <<>>)

\* metas.sort((a,b) => b.score - a.score): stable, descending by score.
SortDesc(s) ==
  LET RECURSIVE Ins(_, _)
      Ins(e, t) == IF t = <<>> THEN <<e>>
                   ELSE IF Head(t).score < e.score THEN <<e>> \o t
                   ELSE <<Head(t)>> \o Ins(e, Tail(t))
      RECURSIVE Go(_, _)
      Go(i, acc) == IF i > Len(s) THEN acc ELSE Go(i + 1, Ins(s[i], acc))
  IN Go(1, <<>>)

\* s.slice(0, k), k >= 0
Slice(s, k) == SubSeq(s, 1, Min(k, Len(s)))

\* Rare-only selection with a strict threshold (faulty variant).
SelectTargetsStrict(m, addr, rareOnly, topK, minScore) ==
  IF addr = "" THEN <<>>
  ELSE IF rareOnly
    THEN Slice(SelectSeq(m, LAMBDA e : e.score > minScore), topK)
    ELSE m

\* Selection that ignores a missing wallet (faulty variant).
SelectTargetsNoWalletCheck(m, addr, rareOnly, topK, minScore) ==
  IF rareOnly
    THEN Slice(SelectSeq(m, LAMBDA e : e.score >= minScore), topK)
    ELSE m

\* targets (lines 184-195)
SelectTargets(m, addr, rareOnly, topK, minScore) ==
  IF addr = "" THEN <<>>
  ELSE IF rareOnly
    THEN Slice(SelectSeq(m, LAMBDA e : e.score >= minScore), topK)
    ELSE m

\* What requestSignature returns on success.
SignResult(fid, data) == [ok |-> TRUE, data |-> data, path |-> SignPath(fid)]

\* The files one attempt of generateMeta writes once its response r is in:
\* the body is written whenever there is one (faulty variant).
GenWritesAnyStatus(fid, r) ==
  IF ~r.threw /\ r.data # NoData
    THEN {JsonPath(fid), maybeSavePng(r.data, fid)} \ {Blank}
    ELSE {}

\* The files one attempt of generateMeta writes once its response r is in
\* (lines 102-105): the JSON body and the decoded image, on success only.
GenWrites(fid, r) ==
  IF Succeeded(r)
    THEN {GenResult(fid, r.data).jsonPath, GenResult(fid, r.data).pngPath} \ {Blank}
    ELSE {}

\* The file one attempt of requestSignature writes (lines 126-128).
SigWrites(fid, r) ==
  IF Succeeded(r) THEN {SignResult(fid, r.data).path} ELSE {}

\* The per-entry result with the branches of the error ternary swapped
\* (faulty variant).
SigResultSwapped(fid, r) ==
  [fid |-> fid, ok |-> r.ok, path |-> r.path,
   error |-> IF r.ok THEN "unknown" ELSE ""]

\* The per-entry result of a sign task.
SigResult(fid, r) ==
  [fid |-> fid, ok |-> r.ok, path |-> r.path,
   error |-> IF r.ok THEN "" ELSE "unknown"]

\* new Map(sigResults.map(s => [s.fid, s])): the last result of a fid wins.
SigMapHas(results, fid) == \E k \in 1..Len(results) : results[k].fid = fid
SigMapGet(results, fid) ==
  LET ks == {k \in 1..Len(results) : results[k].fid = fid}
  IN results[CHOOSE k \in ks : \A j \in ks : j <= k]

InitialRow(m) ==
  [fid |-> m.fid, rarityScore |-> m.score, traits |-> m.summary,
   json |-> Basename(m.jsonPath),
   png |-> IF m.pngPath # Blank THEN Basename(m.pngPath) ELSE Blank,
   signature |-> Blank, sig_error |-> ""]

\* The final row without its png column (faulty variant).
FinalRowNoPng(m, results, addr) ==
  [fid |-> m.fid, rarityScore |-> m.score, traits |-> m.summary,
   json |-> Basename(m.jsonPath),
   png |-> Blank,
   signature |-> IF SigMapHas(results, m.fid) /\ SigMapGet(results, m.fid).ok
                   THEN Basename(SigMapGet(results, m.fid).path) ELSE Blank,
   sig_error |-> IF SigMapHas(results, m.fid) /\ SigMapGet(results, m.fid).error # ""
                   THEN SigMapGet(results, m.fid).error
                   ELSE IF addr # "" THEN "" ELSE "NO_WALLET"]

FinalRow(m, results, addr) ==
  [fid |-> m.fid, rarityScore |-> m.score, traits |-> m.summary,
   json |-> Basename(m.jsonPath),
   png |-> IF m.pngPath # Blank THEN Basename(m.pngPath) ELSE Blank,
   signature |-> IF SigMapHas(results, m.fid) /\ SigMapGet(results, m.fid).ok
                   THEN Basename(SigMapGet(results, m.fid).path) ELSE Blank,
   sig_error |-> IF SigMapHas(results, m.fid) /\ SigMapGet(results, m.fid).error # ""
                   THEN SigMapGet(results, m.fid).error
                   ELSE IF addr # "" THEN "" ELSE "NO_WALLET"]

(***************************************************************************)
(* Tasks behind the gate.                                                  *)
(***************************************************************************)
NoRes == [ok |-> FALSE]
Queued == [st |-> "queued", backoff |-> InitialBackoff, resp |-> NoResp, res |-> NoRes]

AllDone(tasks) == \A i \in DOMAIN tasks : tasks[i].st = "done"
Running(tasks) == {i \in DOMAIN tasks : tasks[i].st \in {"await", "sleep"}}

\* The gate with no limit (faulty variant).
GateOpenUnlimited(active, limit, q) == q # <<>>

\* p-limit: the next queued task runs when fewer than `limit` are active.
GateOpen(active, limit, q) == active < limit /\ q # <<>>

\* A settled task that keeps its slot (faulty variant).
ReleaseNone(active) == active

\* p-limit: a settled task frees its slot.
Release(active) == active - 1

sigResults == SeqMap(LAMBDA t : t.res, sig)

(***************************************************************************)
(* Initial states.                                                         *)
(***************************************************************************)
Wallets == {"", "0xWALLET"}
DefaultTopK == 10
MinScores == {0, 5 * One}
NotScored == <<>>
IdlePayload == Payload(Null, NotArray, NotArray, "none")

PipeStart ==
  /\ pc = "start" /\ exitCode = <<>> /\ dirCreated = FALSE
  /\ fids = <<>> /\ activeCount = 0 /\ queue = <<>>
  /\ gen = <<>> /\ sig = <<>> /\ metas = <<>> /\ targets = <<>>
  /\ files = {} /\ issued = {}
  /\ indexFile = <<>> /\ indexOpen = FALSE /\ indexWrites = 0
  /\ firstIndex = <<>> /\ writes = EmptyBag

\* Identifiers are opaque, so the first identifier of the file is taken to
\* be "A"; the others are free.
InputFiles ==
  {ls \in SeqsUpTo(LineTokens, MaxLines) :
     \A i \in DOMAIN ls : ls[i] = "B" => \E j \in 1..(i - 1) : ls[j] = "A"}

InitWith(inputs) ==
  /\ inputExists \in BOOLEAN
  /\ lines \in inputs
  /\ CONCURRENCY \in 1..MaxLines
  /\ ADDR \in Wallets
  /\ RARE_ONLY \in BOOLEAN
  \* TOP_K and MIN_SCORE are read only in rare-only mode with a wallet
  \* (lines 188-190); elsewhere they keep their defaults.
  /\ TOP_K \in IF ADDR # "" /\ RARE_ONLY THEN 0..MaxLines ELSE {DefaultTopK}
  /\ MIN_SCORE \in IF ADDR # "" /\ RARE_ONLY THEN MinScores ELSE {0}
  /\ PipeStart
  /\ payload = IdlePayload /\ scored = NotScored

Init == InitWith(InputFiles)

(***************************************************************************)
(* Startup (lines 19-26) and the launch of the generate phase (142-156).   *)
(***************************************************************************)
MissingInput ==
  /\ pc = "start" /\ ~inputExists
  /\ pc' = "exited" /\ exitCode' = <<1>>
  /\ UNCHANGED <<inputExists, lines, CONCURRENCY, ADDR, RARE_ONLY, TOP_K,
                 MIN_SCORE, dirCreated, fids, activeCount, queue, gen, sig,
                 metas, targets, files, issued, indexFile, indexOpen,
                 indexWrites, scoreVars,
                 firstIndex, writes>>

\* Startup without the existsSync check (faulty variant).
StartupUnchecked ==
  /\ pc = "start"
  /\ dirCreated' = TRUE
  /\ fids' = ParseFids(lines)
  /\ pc' = "launch"
  /\ UNCHANGED <<inputExists, lines, CONCURRENCY, ADDR, RARE_ONLY, TOP_K,
                 MIN_SCORE, exitCode, activeCount, queue, gen, sig, metas,
                 targets, files, issued, indexFile, indexOpen, indexWrites,
                 scoreVars,
                 firstIndex, writes>>

Startup ==
  /\ pc = "start" /\ inputExists
  /\ dirCreated' = TRUE
  /\ fids' = ParseFids(lines)
  /\ pc' = "launch"
  /\ UNCHANGED <<inputExists, lines, CONCURRENCY, ADDR, RARE_ONLY, TOP_K,
                 MIN_SCORE, exitCode, activeCount, queue, gen, sig, metas,
                 targets, files, issued, indexFile, indexOpen, indexWrites,
                 scoreVars,
                 firstIndex, writes>>

LaunchGenerate ==
  /\ pc = "launch"
  /\ gen' = [i \in 1..Len(fids) |-> Queued]
  /\ queue' = [i \in 1..Len(fids) |-> i]
  /\ pc' = "generate"
  /\ UNCHANGED <<inputExists, lines, CONCURRENCY, ADDR, RARE_ONLY, TOP_K,
                 MIN_SCORE, exitCode, dirCreated, fids, activeCount, sig,
                 metas, targets, files, issued, indexFile, indexOpen,
                 indexWrites, scoreVars,
                 firstIndex, writes>>

(***************************************************************************)
(* A generate task: limit(async () => generateMeta(fid) ...).              *)
(***************************************************************************)
GenStart ==
  /\ pc = "generate"
  /\ GateOpen(activeCount, CONCURRENCY, queue)
  /\ LET i == Head(queue)
     IN /\ gen' = [gen EXCEPT ![i].st = "await"]
        /\ issued' = issued \cup {<<"generate", i>>}
  /\ queue' = Tail(queue)
  /\ activeCount' = activeCount + 1
  /\ UNCHANGED <<inputExists, lines, CONCURRENCY, ADDR, RARE_ONLY, TOP_K,
                 MIN_SCORE, pc, exitCode, dirCreated, fids, sig, metas,
                 targets, files, indexFile, indexOpen, indexWrites, scoreVars,
                 firstIndex, writes>>

\* One httpPost of generateMeta settles with r.
GenRespond(i, r) ==
  /\ pc = "generate"
  /\ gen[i].st = "await"
  /\ files' = files \cup GenWrites(fids[i], r)
  /\ writes' = writes (+) SetToBag({<<"generate", i, p>> : p \in GenWrites(fids[i], r)})
  /\ IF Succeeded(r)
       THEN LET res == GenResult(fids[i], r.data)
            IN /\ gen' = [gen EXCEPT ![i] = [st |-> "done", backoff |-> @.backoff,
                                             resp |-> r,
                                             res |-> Entry(fids[i], res, i)]]
               /\ activeCount' = Release(activeCount)
       ELSE /\ gen' = [gen EXCEPT ![i] = [st |-> "sleep",
                                          backoff |-> NextBackoff(@.backoff, GenFloor),
                                          resp |-> r, res |-> NoRes]]
            /\ UNCHANGED activeCount
  /\ UNCHANGED <<inputExists, lines, CONCURRENCY, ADDR, RARE_ONLY, TOP_K,
                 MIN_SCORE, pc, exitCode, dirCreated, fids, queue, sig, metas,
                 targets, issued, indexFile, indexOpen, indexWrites, scoreVars,
                 firstIndex>>

\* The backoff sleep of generateMeta ends; the loop posts again.
GenRetry(i) ==
  /\ pc = "generate"
  /\ gen[i].st = "sleep"
  /\ gen' = [gen EXCEPT ![i].st = "await", ![i].resp = NoResp]
  /\ UNCHANGED <<inputExists, lines, CONCURRENCY, ADDR, RARE_ONLY, TOP_K,
                 MIN_SCORE, pc, exitCode, dirCreated, fids, activeCount, queue,
                 sig, metas, targets, files, issued, indexFile, indexOpen,
                 indexWrites, scoreVars,
                 firstIndex, writes>>

(***************************************************************************)
(* Ranking and the initial index write (lines 158-178).                    *)
(***************************************************************************)
\* Ranking as soon as one generate task has returned, over the entries
\* returned so far (faulty variant).
RankAndWriteIndexEarly ==
  /\ pc = "generate"
  /\ \E i \in DOMAIN gen : gen[i].st = "done"
  /\ metas' = SortDesc(SeqMap(LAMBDA t : t.res,
                              SelectSeq(gen, LAMBDA t : t.st = "done")))
  /\ indexOpen' = TRUE
  /\ indexFile' = <<>>
  /\ pc' = "flush1"
  /\ UNCHANGED <<inputExists, lines, CONCURRENCY, ADDR, RARE_ONLY, TOP_K,
                 MIN_SCORE, exitCode, dirCreated, fids, activeCount, queue,
                 gen, sig, targets, files, issued, indexWrites, scoreVars,
                 firstIndex, writes>>

\* The initial index write is started but not awaited (faulty variant).
RankAndWriteIndexNoAwait ==
  /\ pc = "generate"
  /\ AllDone(gen)
  /\ metas' = SortDesc(SeqMap(LAMBDA t : t.res, gen))
  /\ indexOpen' = TRUE
  /\ indexFile' = <<>>
  /\ pc' = "select"
  /\ UNCHANGED <<inputExists, lines, CONCURRENCY, ADDR, RARE_ONLY, TOP_K,
                 MIN_SCORE, exitCode, dirCreated, fids, activeCount, queue,
                 gen, sig, targets, files, issued, indexWrites, scoreVars,
                 firstIndex, writes>>

RankAndWriteIndex ==
  /\ pc = "generate"
  /\ AllDone(gen)
  /\ metas' = SortDesc(SeqMap(LAMBDA t : t.res, gen))
  /\ indexOpen' = TRUE
  /\ indexFile' = <<>>
  /\ pc' = "flush1"
  /\ UNCHANGED <<inputExists, lines, CONCURRENCY, ADDR, RARE_ONLY, TOP_K,
                 MIN_SCORE, exitCode, dirCreated, fids, activeCount, queue,
                 gen, sig, targets, files, issued, indexWrites, scoreVars,
                 firstIndex, writes>>

InitialIndexFinish ==
  /\ pc = "flush1"
  /\ indexFile' = SeqMap(InitialRow, metas)
  /\ firstIndex' = indexFile'
  /\ indexOpen' = FALSE
  /\ indexWrites' = indexWrites + 1
  /\ pc' = "select"
  /\ UNCHANGED <<inputExists, lines, CONCURRENCY, ADDR, RARE_ONLY, TOP_K,
                 MIN_SCORE, exitCode, dirCreated, fids, activeCount, queue,
                 gen, sig, metas, targets, files, issued, scoreVars,
                 writes>>

(***************************************************************************)
(* Signature phase (lines 184-200).                                        *)
(***************************************************************************)
LaunchSign ==
  /\ pc = "select"
  /\ targets' = SelectTargets(metas, ADDR, RARE_ONLY, TOP_K, MIN_SCORE)
  /\ sig' = [k \in 1..Len(targets') |-> Queued]
  /\ queue' = [k \in 1..Len(targets') |-> k]
  /\ pc' = "sign"
  /\ UNCHANGED <<inputExists, lines, CONCURRENCY, ADDR, RARE_ONLY, TOP_K,
                 MIN_SCORE, exitCode, dirCreated, fids, activeCount, gen,
                 metas, files, issued, indexFile, indexOpen, indexWrites,
                 scoreVars,
                 firstIndex, writes>>

SigStart ==
  /\ pc = "sign"
  /\ GateOpen(activeCount, CONCURRENCY, queue)
  /\ LET k == Head(queue)
     IN /\ sig' = [sig EXCEPT ![k].st = "await"]
        /\ issued' = issued \cup {<<"sign", k>>}
  /\ queue' = Tail(queue)
  /\ activeCount' = activeCount + 1
  /\ UNCHANGED <<inputExists, lines, CONCURRENCY, ADDR, RARE_ONLY, TOP_K,
                 MIN_SCORE, pc, exitCode, dirCreated, fids, gen, metas,
                 targets, files, indexFile, indexOpen, indexWrites, scoreVars,
                 firstIndex, writes>>

\* One httpPost of requestSignature settles with r.
SigRespond(k, r) ==
  /\ pc = "sign"
  /\ sig[k].st = "await"
  /\ files' = files \cup SigWrites(targets[k].fid, r)
  /\ writes' = writes (+) SetToBag({<<"sign", k, p>> : p \in SigWrites(targets[k].fid, r)})
  /\ IF Succeeded(r)
       THEN LET res == SignResult(targets[k].fid, r.data)
            IN /\ sig' = [sig EXCEPT ![k] = [st |-> "done", backoff |-> @.backoff,
                                             resp |-> r,
                                             res |-> SigResult(targets[k].fid, res)]]
               /\ activeCount' = Release(activeCount)
       ELSE /\ sig' = [sig EXCEPT ![k] = [st |-> "sleep",
                                          backoff |-> NextBackoff(@.backoff, SignFloor),
                                          resp |-> r, res |-> NoRes]]
            /\ UNCHANGED activeCount
  /\ UNCHANGED <<inputExists, lines, CONCURRENCY, ADDR, RARE_ONLY, TOP_K,
                 MIN_SCORE, pc, exitCode, dirCreated, fids, queue, gen, metas,
                 targets, issued, indexFile, indexOpen, indexWrites, scoreVars,
                 firstIndex>>

SigRetry(k) ==
  /\ pc = "sign"
  /\ sig[k].st = "sleep"
  /\ sig' = [sig EXCEPT ![k].st = "await", ![k].resp = NoResp]
  /\ UNCHANGED <<inputExists, lines, CONCURRENCY, ADDR, RARE_ONLY, TOP_K,
                 MIN_SCORE, pc, exitCode, dirCreated, fids, activeCount, queue,
                 gen, metas, targets, files, issued, indexFile, indexOpen,
                 indexWrites, scoreVars,
                 firstIndex, writes>>

(***************************************************************************)
(* The final index write (lines 203-220).                                  *)
(***************************************************************************)
RewriteIndex ==
  /\ pc = "sign"
  /\ AllDone(sig)
  /\ indexOpen' = TRUE
  /\ indexFile' = <<>>
  /\ pc' = "flush2"
  /\ UNCHANGED <<inputExists, lines, CONCURRENCY, ADDR, RARE_ONLY, TOP_K,
                 MIN_SCORE, exitCode, dirCreated, fids, activeCount, queue,
                 gen, sig, metas, targets, files, issued, indexWrites,
                 scoreVars,
                 firstIndex, writes>>

FinalIndexFinish ==
  /\ pc = "flush2"
  /\ indexFile' = SeqMap(LAMBDA m : FinalRow(m, sigResults, ADDR), metas)
  /\ indexOpen' = FALSE
  /\ indexWrites' = indexWrites + 1
  /\ pc' = "done"
  /\ exitCode' = <<0>>
  /\ UNCHANGED <<inputExists, lines, CONCURRENCY, ADDR, RARE_ONLY, TOP_K,
                 MIN_SCORE, dirCreated, fids, activeCount, queue, gen, sig,
                 metas, targets, files, issued, scoreVars,
                 firstIndex, writes>>

Next ==
  \/ MissingInput
  \/ Startup
  \/ LaunchGenerate
  \/ GenStart
  \/ \E i \in DOMAIN gen, r \in GenResponses : GenRespond(i, r)
  \/ \E i \in DOMAIN gen : GenRetry(i)
  \/ RankAndWriteIndex
  \/ InitialIndexFinish
  \/ LaunchSign
  \/ SigStart
  \/ \E k \in DOMAIN sig, r \in SigResponses : SigRespond(k, r)
  \/ \E k \in DOMAIN sig : SigRetry(k)
  \/ RewriteIndex
  \/ FinalIndexFinish

Spec == Init /\ [][Next]_vars

(***************************************************************************)
(* Scorer harness: rarityScore applied to one payload drawn from a bounded *)
(* set of payload shapes.                                                  *)
(***************************************************************************)
RawTraits ==
  {RawTrait(Null, Null, Null, Null, Null, Null),
   RawTrait(Num(50 * One), Null, Null, Null, Null, Null),
   RawTrait(Num(200 * One), Null, Null, Null, Null, Null),
   RawTrait(Num(0), Null, Null, Null, Null, Null),
   RawTrait(Num(0 - 5 * One), Null, Null, Null, Null, Null),
   RawTrait(StrNum(25 * One, TRUE), Null, Null, Null, Null, Null),
   RawTrait(StrNum(25 * One, FALSE), Null, Null, Null, Null, Null),
   RawTrait(StrJunk(TRUE), Null, Null, Null, Null, Null),
   RawTrait(Null, Null, Null, Null, Num(3 * One), Null),
   RawTrait(Null, Null, Null, Null, Num(0 - One), Null),
   RawTrait(Null, Null, Null, Null, Num(4), Null),
   RawTrait(Null, Null, Null, Null, StrNum(3 * One, FALSE), Null),
   RawTrait(Num(0), Null, Null, Null, Num(3 * One), Null),
   RawTrait(Null, Num(10 * One), Num(50 * One), Null, Null, Num(3 * One))}

RarityScoreFields == {Null, Num(5 * One), Num(12345675), Num(0 - One),
                      StrNum(5 * One, FALSE)}

ScorePayloads ==
  {Payload(rs, Array(l), NotArray, "none") :
     rs \in RarityScoreFields, l \in SeqsUpTo(RawTraits, MaxTraits)}
  \cup {Payload(rs, NotArray, Array(l), "none") :
     rs \in RarityScoreFields, l \in SeqsUpTo(RawTraits, MaxTraits)}
  \cup {Payload(rs, NotArray, NotArray, "none") : rs \in RarityScoreFields}

ScoreInit ==
  /\ payload \in ScorePayloads
  /\ scored = NotScored
  /\ inputExists = FALSE /\ lines = <<>> /\ CONCURRENCY = 1 /\ ADDR = ""
  /\ RARE_ONLY = FALSE /\ TOP_K = DefaultTopK /\ MIN_SCORE = 0
  /\ PipeStart

\* const score = rarityScore(res.data)   (line 148)
Score ==
  /\ scored = NotScored
  /\ scored' = <<rarityScore(payload)>>
  /\ UNCHANGED <<payload, pipeVars>>

ScoreNext == Score

ScoreSpec == ScoreInit /\ [][ScoreNext]_vars

(***************************************************************************)
(* Properties.                                                             *)
(***************************************************************************)

\* C1: at every moment the fetcher invocations that have started and not
\* returned (awaiting a response or backing off), generate and sign together,
\* number at most CONCURRENCY.
C1_InFlightBounded ==
  Cardinality(Running(gen)) + Cardinality(Running(sig)) <= CONCURRENCY

\* The gate is full, one of its invocations is backing off, and a task waits.
C1_Witness ==
  /\ queue # <<>>
  /\ Cardinality(Running(gen)) = CONCURRENCY
  /\ \E i \in DOMAIN gen : gen[i].st = "sleep"

RespOk(r) == r.threw = FALSE /\ r.status = 200 /\ r.data # NoData

AttemptSettles(t, u) ==
  \A i \in DOMAIN t \cap DOMAIN u :
    /\ (t[i].st = "await" /\ u[i].st # "await") =>
         IF RespOk(u[i].resp) THEN u[i].st = "done"
         ELSE u[i].st = "sleep" /\ pc' = pc /\ exitCode' = exitCode
    /\ (t[i].st # "done" /\ u[i].st = "done") =>
         t[i].st = "await" /\ RespOk(u[i].resp)
    /\ (t[i].st = "sleep" /\ u[i].st # "sleep") => u[i].st = "await"

\* C2: an invocation of generateMeta or requestSignature returns only on an
\* attempt answered with status 200 and a non-empty body; an attempt that
\* ends otherwise (other status, empty body, thrown error) leaves the
\* invocation backing off, the caller untouched, and the next step of the
\* invocation is another attempt.
C2_ReturnsOnlyOnSuccess ==
  [][AttemptSettles(gen, gen') /\ AttemptSettles(sig, sig')]_vars

\* A generate and a sign invocation have each returned after a failed attempt.
C2_Witness ==
  /\ \E i \in DOMAIN gen : gen[i].st = "done" /\ gen[i].backoff # InitialBackoff
  /\ \E k \in DOMAIN sig : sig[k].st = "done" /\ sig[k].backoff # InitialBackoff

(***************************************************************************)
(* Fair runs: every step of the program that can be taken is eventually    *)
(* taken (the event loop runs each ready continuation and timer), and the  *)
(* service eventually answers some attempt of every operation with 200     *)
(* and a body.                                                             *)
(***************************************************************************)
GenSucceed(i) ==
  /\ i \in DOMAIN gen
  /\ \E r \in GenResponses : Succeeded(r) /\ GenRespond(i, r)

SigSucceed(k) ==
  /\ k \in DOMAIN sig
  /\ \E r \in SigResponses : Succeeded(r) /\ SigRespond(k, r)

GenWake(i) == i \in DOMAIN gen /\ GenRetry(i)
SigWake(k) == k \in DOMAIN sig /\ SigRetry(k)

\* The steps of the top-level code; pc enables at most one of them.
MainStep ==
  \/ MissingInput \/ Startup \/ LaunchGenerate \/ RankAndWriteIndex
  \/ InitialIndexFinish \/ LaunchSign \/ RewriteIndex \/ FinalIndexFinish

\* The gate starting its next task.
GateStep == GenStart \/ SigStart

\* Task number i of the phase in progress: its timer, and a good answer.
TaskWake(i) == GenWake(i) \/ SigWake(i)
TaskSucceed(i) == GenSucceed(i) \/ SigSucceed(i)

Fairness ==
  /\ WF_vars(MainStep)
  /\ WF_vars(GateStep)
  /\ \A i \in 1..MaxLines : WF_vars(TaskWake(i)) /\ SF_vars(TaskSucceed(i))

\* No guard of the program reads an identifier, so progress is checked on
\* input files of one identifier and blank lines; rare-only mode only
\* shortens the list of sign tasks, so the signature phase runs over all
\* entries or (no wallet) none.
LiveInit ==
  /\ InitWith(SeqsUpTo({"A", " "}, MaxLines))
  /\ ~RARE_ONLY

LiveSpec == LiveInit /\ [][Next]_vars /\ Fairness

Completed ==
  /\ pc = "done"
  /\ Len(gen) = Len(fids) /\ AllDone(gen)
  /\ Len(sig) = Len(targets) /\ AllDone(sig)
  /\ queue = <<>>
  /\ indexWrites = 2 /\ ~indexOpen

\* C3: in a fair run whose input file exists, every generate and sign
\* invocation eventually returns, every queued task eventually runs, and the
\* final index rewrite eventually completes, whatever failures came first.
C3_EventualCompletion == (pc = "start" /\ inputExists) ~> Completed

\* A completed run in which tasks had to wait for the gate and both a
\* generate and a sign invocation failed before succeeding.
C3_Witness ==
  /\ Completed
  /\ Len(fids) > CONCURRENCY /\ Len(targets) > CONCURRENCY
  /\ \E i \in DOMAIN gen : gen[i].backoff # InitialBackoff
  /\ \E k \in DOMAIN sig : sig[k].backoff # InitialBackoff

Count(S) == Cardinality(S)
NonBlankLines == {i \in DOMAIN lines : lines[i] # " "}
LinesOf(f) == {i \in DOMAIN lines : lines[i] = f}
RowsOf(f) == {a \in DOMAIN indexFile : indexFile[a].fid = f}
FetchesOf(f) ==
  {i \in DOMAIN gen : fids[i] = f /\ gen[i].st = "done" /\ <<"generate", i>> \in issued}
IndexWritten == indexWrites >= 1 /\ ~indexOpen

\* C4: a completely written index file, initial or final, has one row per
\* non-blank input line, in non-increasing score order; an identifier on k
\* input lines was fetched by k generate invocations and has k rows.
C4_IndexRows ==
  IndexWritten =>
    /\ Len(indexFile) = Count(NonBlankLines)
    /\ \A a, b \in DOMAIN indexFile :
         a < b => indexFile[a].rarityScore >= indexFile[b].rarityScore
    /\ \A f \in LineTokens \ {" "} :
         /\ Count(RowsOf(f)) = Count(LinesOf(f))
         /\ Count(FetchesOf(f)) = Count(LinesOf(f))

\* The final index of an input with a repeated identifier whose two fetches
\* scored differently.
C4_Witness ==
  /\ indexWrites = 2 /\ ~indexOpen
  /\ \E i, j \in DOMAIN lines : i < j /\ lines[i] = lines[j] /\ lines[i] # " "
  /\ \E a, b \in DOMAIN indexFile : indexFile[a].rarityScore > indexFile[b].rarityScore

Ranked == pc \in {"flush1", "select", "sign", "flush2", "done"}

\* C5: the ranked list holds every entry once, by descending score, and
\* entries of equal score in the order of their identifiers in the input,
\* whatever order the generate operations completed in.
C5_StableRanking ==
  Ranked =>
    /\ Len(metas) = Len(fids)
    /\ \A i \in DOMAIN fids : \E a \in DOMAIN metas : metas[a].pos = i
    /\ \A a, b \in DOMAIN metas :
         a < b => \/ metas[a].score > metas[b].score
                  \/ metas[a].score = metas[b].score /\ metas[a].pos < metas[b].pos

\* A ranked list with two entries of equal score.
C5_Witness ==
  /\ Ranked
  /\ \E a, b \in DOMAIN metas : a < b /\ metas[a].score = metas[b].score

Eligible == {a \in DOMAIN metas : metas[a].score >= MIN_SCORE}
Selected == pc \in {"sign", "flush2", "done"}
SignIssued == {k \in 1..MaxLines : <<"sign", k>> \in issued}

\* C6: with a wallet and rare-only mode the targets are the first TOP_K, in
\* ranked order, of the ranked entries with score >= MIN_SCORE; with a wallet
\* and rare-only off they are all entries; signature requests are issued for
\* the targets only, and for each of them by the end of the signature phase.
C6_TargetSelection ==
  Selected =>
    /\ (ADDR # "" /\ RARE_ONLY) =>
         /\ Len(targets) = Min(TOP_K, Count(Eligible))
         /\ \A k \in DOMAIN targets :
              \E a \in Eligible : /\ Count({b \in Eligible : b < a}) = k - 1
                                  /\ targets[k] = metas[a]
    /\ (ADDR # "" /\ ~RARE_ONLY) => targets = metas
    /\ SignIssued \subseteq DOMAIN targets
    /\ pc \in {"flush2", "done"} => SignIssued = DOMAIN targets

\* Rare-only selection that cut the eligible entries down to TOP_K, all
\* targets signed.
C6_Witness ==
  /\ pc = "done" /\ ADDR # "" /\ RARE_ONLY
  /\ Len(targets) = TOP_K /\ TOP_K > 0
  /\ Count(Eligible) > TOP_K
  /\ SignIssued = DOMAIN targets

\* C7: without a wallet address no signature request is issued, and every
\* row of the final index has sig_error NO_WALLET and an empty signature.
C7_NoWallet ==
  ADDR = "" =>
    /\ SignIssued = {}
    /\ sig = <<>>
    /\ (indexWrites = 2 /\ ~indexOpen) =>
         \A a \in DOMAIN indexFile :
           indexFile[a].sig_error = "NO_WALLET" /\ indexFile[a].signature = Blank

\* A finished run without a wallet whose index has rows.
C7_Witness ==
  /\ pc = "done" /\ ADDR = "" /\ indexWrites = 2
  /\ Len(indexFile) = MaxLines

\* C8: in the final index a row's signature is non-blank only if the row's
\* entry is one of the signature targets.
C8_UntargetedRowsBlank ==
  (indexWrites = 2 /\ ~indexOpen) =>
    \A a \in DOMAIN indexFile :
      indexFile[a].signature # Blank => \E k \in DOMAIN targets : targets[k] = metas[a]

\* C9: with the input file missing the process exits with code 1 at once,
\* having issued no remote operation, not created the output directory and
\* written no file; with the input file present it never exits non-zero.
C9_MissingInputExit ==
  /\ ~inputExists =>
       /\ pc \in {"start", "exited"}
       /\ pc = "exited" => exitCode = <<1>>
       /\ issued = {} /\ ~dirCreated /\ files = {}
       /\ indexWrites = 0 /\ ~indexOpen /\ indexFile = <<>>
  /\ inputExists => exitCode \in {<<>>, <<0>>}

\* The process has exited with code 1.
C9_Witness == pc = "exited" /\ exitCode = <<1>> /\ ~inputExists

\* C10: for a payload whose top-level rarityScore is a number, the scorer
\* returns that number itself, whatever traits the payload carries.
C10_RarityScoreVerbatim ==
  (scored # NotScored /\ payload.rarityScore.t = "num") =>
    scored[1] = payload.rarityScore.v

\* A scored payload with a numeric rarityScore of more than six decimals and
\* a trait list of its own.
C10_Witness ==
  /\ scored # NotScored
  /\ payload.rarityScore.t = "num" /\ payload.rarityScore.v % 10 # 0
  /\ Len(normalizeTraits(payload)) > 0

(***************************************************************************)
(* The payload as the claims about the scorer read it.                     *)
(***************************************************************************)
\* The payload's trait list: attributes, else traits, when that is an array.
TraitList(p) ==
  IF p.attributes.arr THEN p.attributes.items
  ELSE IF p.traits.arr THEN p.traits.items ELSE <<>>

\* The raw trait carries no percent field and no rarity field at all.
NoRarityInfo(t) ==
  /\ t.percent = Null /\ t.percentage = Null /\ t.frequency = Null
  /\ t.rarityPercent = Null /\ t.rarity = Null /\ t.score = Null

\* C11: for a payload without a numeric rarityScore whose n traits all lack
\* percent and rarity information, the score is 0.5 * n; it is 0 when the
\* trait list is empty, absent or not an array.
C11_DefaultWeightSum ==
  (/\ scored # NotScored
   /\ ~IsNumber(payload.rarityScore)
   /\ \A i \in DOMAIN TraitList(payload) : NoRarityInfo(TraitList(payload)[i]))
  => 2 * scored[1] = Len(TraitList(payload)) * One

\* A scored payload without numeric rarityScore whose two or more traits all
\* lack percent and rarity information.
C11_Witness ==
  /\ scored # NotScored
  /\ ~IsNumber(payload.rarityScore)
  /\ Len(TraitList(payload)) >= 2
  /\ \A i \in DOMAIN TraitList(payload) : NoRarityInfo(TraitList(payload)[i])

\* The normalized percent of a raw trait, when it is a number.
HasPercent(t) == NormalizeTrait(t).percent.t = "num"
PercentOf(t) == NormalizeTrait(t).percent.v

\* The rarity of a raw trait (rarity, else score), when it is a number.
HasRarity(t) == NormalizeTrait(t).rarity.t = "num"
RarityOf(t) == NormalizeTrait(t).rarity.v

\* C12 as stated: for every payload, the score returned is non-negative.
C12_ScoreNonNegative == scored # NotScored => scored[1] >= 0

\* The payload has no negative numeric rarityScore, no trait percent above
\* 100 and no negative numeric trait rarity.
WellFormedPayload(p) ==
  /\ (p.rarityScore.t = "num" => p.rarityScore.v >= 0)
  /\ \A i \in DOMAIN TraitList(p) :
       /\ (HasPercent(TraitList(p)[i]) => PercentOf(TraitList(p)[i]) <= 100 * One)
       /\ (HasRarity(TraitList(p)[i]) => RarityOf(TraitList(p)[i]) >= 0)

\* C12, amended: for every payload whose numeric rarityScore, if any, is not
\* negative and whose traits have no percent above 100 and no negative
\* numeric rarity, the score returned is non-negative.
C12_NonNegativeOnWellFormed ==
  (scored # NotScored /\ WellFormedPayload(payload)) => scored[1] >= 0

\* A scored well-formed payload without numeric rarityScore, one of whose
\* traits has a percent between 0 and 100.
C12_Witness ==
  /\ scored # NotScored
  /\ WellFormedPayload(payload)
  /\ ~IsNumber(payload.rarityScore)
  /\ \E i \in DOMAIN TraitList(payload) :
       /\ HasPercent(TraitList(payload)[i])
       /\ PercentOf(TraitList(payload)[i]) > 0
       /\ PercentOf(TraitList(payload)[i]) < 100 * One
  /\ scored[1] > 0

(***************************************************************************)
(* The barriers between the phases.                                        *)
(***************************************************************************)
\* Every generate operation of the run has returned.
GenReturned ==
  /\ DOMAIN gen = DOMAIN fids
  /\ \A i \in DOMAIN fids : gen[i].st = "done" /\ gen[i].res # NoRes

\* Ranking, an index write or a signature request has begun.
PastGenerate ==
  \/ Ranked \/ metas # <<>>
  \/ indexOpen \/ indexWrites > 0 \/ indexFile # <<>>
  \/ SignIssued # {} \/ sig # <<>> \/ targets # <<>>

\* C13: ranking, the initial index write and every signature request begin
\* only after every generate operation has returned; while some generate
\* operation has not succeeded, no index file is written and no signature
\* is requested.
C13_GenerateBarrier ==
  /\ PastGenerate => GenReturned
  /\ ~GenReturned =>
       /\ indexWrites = 0 /\ ~indexOpen /\ indexFile = <<>>
       /\ SignIssued = {}

\* A run of two or more identifiers, one of whose generate operations failed
\* before it succeeded, that ranked, wrote the index and requested a
\* signature.
C13_Witness ==
  /\ Len(fids) >= 2
  /\ \E i \in DOMAIN gen : gen[i].backoff # InitialBackoff
  /\ indexWrites >= 1
  /\ SignIssued # {}

\* The final write of the index is in progress or over.
FinalWriteBegun == pc \in {"flush2", "done"} \/ indexWrites >= 2
                   \/ (indexOpen /\ indexWrites >= 1)

\* C14: the two writes of the index never overlap: no signature request
\* starts before the initial write is complete, and the final write starts
\* only after every signature request of the targets has returned and the
\* initial write is complete.
C14_IndexWritesDisjoint ==
  /\ indexWrites <= 2
  /\ (SignIssued # {} \/ Running(sig) # {}) => indexWrites >= 1
  /\ Running(sig) # {} => ~indexOpen
  /\ FinalWriteBegun =>
       /\ firstIndex # <<>> \/ fids = <<>>
       /\ indexWrites >= 1
       /\ DOMAIN sig = DOMAIN targets
       /\ SignIssued = DOMAIN targets
       /\ AllDone(sig) /\ \A k \in DOMAIN sig : sig[k].res # NoRes
  /\ (indexOpen /\ indexWrites = 0) => sig = <<>>

\* The final write is in progress after two or more signature requests, one
\* of which failed before it succeeded.
C14_Witness ==
  /\ indexOpen /\ indexWrites = 1
  /\ Len(sig) >= 2
  /\ \E k \in DOMAIN sig : sig[k].backoff # InitialBackoff

(***************************************************************************)
(* Artifact writes.                                                        *)
(***************************************************************************)
Written == BagToSet(writes)
WriterOf(w) == <<w[1], w[2]>>
PathOf(w) == w[3]
WritesBy(kind, n) == {w \in Written : WriterOf(w) = <<kind, n>>}

\* C15: no two distinct tasks of a run write the same artifact path, for
\* every input list, duplicates included.
C15_DisjointArtifactPaths ==
  \A w1, w2 \in Written : PathOf(w1) = PathOf(w2) => WriterOf(w1) = WriterOf(w2)

(***************************************************************************)
(* Backoff after a failed attempt.                                         *)
(***************************************************************************)
\* The tasks that are sleeping after a failed attempt.
BackingOff(tasks) == {i \in DOMAIN tasks : tasks[i].st = "sleep"}

\* C16 as stated: the backoff computed after a failed attempt is the floor
\* of the operation, 500 ms for generate and 800 ms for sign.
C16_BackoffAtFloor ==
  /\ \A i \in BackingOff(gen) : gen[i].backoff = GenFloor
  /\ \A k \in BackingOff(sig) : sig[k].backoff = SignFloor

\* C16, amended: in both fetch operations the backoff computed after every
\* failed attempt is the cap, 50 ms, and never the floor, so the delay does
\* not grow with the number of failed attempts: a task's backoff is 10 ms
\* before its first failure and 50 ms ever after.
C16_BackoffAtCap ==
  /\ \A i \in BackingOff(gen) : gen[i].backoff = maxBack
  /\ \A k \in BackingOff(sig) : sig[k].backoff = maxBack
  /\ \A i \in DOMAIN gen : gen[i].backoff \in {InitialBackoff, maxBack}
  /\ \A k \in DOMAIN sig : sig[k].backoff \in {InitialBackoff, maxBack}

\* A sign task sleeps after a failed attempt in a run in which a generate
\* task had failed as well.
C16_Witness ==
  /\ BackingOff(sig) # {}
  /\ \E i \in DOMAIN gen : gen[i].backoff # InitialBackoff

(***************************************************************************)
(* Signature results and the final index.                                  *)
(***************************************************************************)
\* The ranked entries that are targets of the signature phase.
Targeted == {a \in DOMAIN metas : \E k \in DOMAIN targets : targets[k].pos = metas[a].pos}

\* C17: every per-entry signature result has ok = true and an empty error;
\* so with a wallet the final index has an empty sig_error in every row and
\* the signature file of its identifier in every targeted row.
C17_SignatureResultsOk ==
  /\ \A k \in DOMAIN sig : sig[k].st = "done" =>
       /\ sig[k].res.ok /\ sig[k].res.error = ""
       /\ sig[k].res.fid = targets[k].fid
       /\ sig[k].res.path = SignPath(targets[k].fid)
  /\ (pc = "done" /\ ADDR # "") =>
       /\ Len(sigResults) = Len(targets)
       /\ DOMAIN indexFile = DOMAIN metas
       /\ \A a \in DOMAIN indexFile : indexFile[a].sig_error = ""
       /\ \A a \in Targeted :
            indexFile[a].signature = Basename(SignPath(metas[a].fid))

\* A finished run with a wallet in which two or more entries were targeted
\* and a sign task failed before it succeeded.
C17_Witness ==
  /\ pc = "done" /\ ADDR # ""
  /\ Cardinality(Targeted) >= 2
  /\ \E k \in DOMAIN sig : sig[k].backoff # InitialBackoff

\* The number of times task <<kind, n>> wrote path.
TimesWritten(kind, n, path) == CopiesIn(<<kind, n, path>>, writes)

\* C18: over all its attempts a generate invocation writes its JSON file
\* exactly once and its PNG file at most once, and a sign invocation writes
\* its JSON file exactly once; an attempt that fails writes nothing, so a
\* task that has not succeeded yet has written no file, and the output
\* directory holds the files of the succeeded tasks only.
C18_WritesOncePerInvocation ==
  /\ \A i \in DOMAIN gen :
       IF gen[i].st = "done"
         THEN /\ TimesWritten("generate", i, JsonPath(fids[i])) = 1
              /\ TimesWritten("generate", i, PngPath(fids[i])) <= 1
              /\ \A w \in WritesBy("generate", i) :
                   PathOf(w) \in {JsonPath(fids[i]), PngPath(fids[i])}
         ELSE WritesBy("generate", i) = {}
  /\ \A k \in DOMAIN sig :
       IF sig[k].st = "done"
         THEN /\ TimesWritten("sign", k, SignPath(targets[k].fid)) = 1
              /\ WritesBy("sign", k) = {<<"sign", k, SignPath(targets[k].fid)>>}
         ELSE WritesBy("sign", k) = {}
  /\ \A w \in Written :
       \/ w[1] = "generate" /\ w[2] \in DOMAIN gen
       \/ w[1] = "sign" /\ w[2] \in DOMAIN sig
  /\ files = {PathOf(w) : w \in Written}

\* A generate task that wrote its JSON and its PNG file and a sign task that
\* wrote its JSON file, each after a failed attempt, while another generate
\* task had a failed attempt of its own.
C18_Witness ==
  /\ \E i \in DOMAIN gen :
       /\ gen[i].st = "done" /\ gen[i].backoff # InitialBackoff
       /\ TimesWritten("generate", i, PngPath(fids[i])) = 1
  /\ \E k \in DOMAIN sig : sig[k].st = "done" /\ sig[k].backoff # InitialBackoff
  /\ Cardinality({i \in DOMAIN gen : gen[i].backoff # InitialBackoff}) >= 2

(***************************************************************************)
(* Traits whose percent is not positive.                                   *)
(***************************************************************************)
\* The trait's normalized percent is a number that is 0 or negative.
NonPositivePercent(t) == HasPercent(t) /\ PercentOf(t) <= 0

\* What the claim gives a trait of non-positive percent: its raw rarity when
\* that is a number, else 0.5; any other trait counts as the scorer counts it.
ExpectedWeight(t) ==
  IF NonPositivePercent(t)
    THEN (IF HasRarity(t) THEN RarityOf(t) ELSE One \div 2)
    ELSE TraitWeight(NormalizeTrait(t))

\* C19: a trait whose percent is 0 or negative counts as a trait without
\* percent: towards the score of a payload without numeric rarityScore it
\* contributes its raw rarity when that is a number and 0.5 otherwise, never
\* -ln(percent / 100).
C19_NonPositivePercentIgnored ==
  (/\ scored # NotScored
   /\ ~IsNumber(payload.rarityScore)
   /\ \E i \in DOMAIN TraitList(payload) : NonPositivePercent(TraitList(payload)[i]))
  => scored[1] = Round6(SeqSum(SeqMap(ExpectedWeight, TraitList(payload))))

\* A scored payload without numeric rarityScore that has a trait of percent 0
\* or less with a numeric rarity and another such trait without rarity.
C19_Witness ==
  /\ scored # NotScored
  /\ ~IsNumber(payload.rarityScore)
  /\ \E i, j \in DOMAIN TraitList(payload) :
       /\ NonPositivePercent(TraitList(payload)[i]) /\ HasRarity(TraitList(payload)[i])
       /\ NonPositivePercent(TraitList(payload)[j]) /\ ~HasRarity(TraitList(payload)[j])

\* The columns of an index row that the signature phase does not fill.
EntryColumns(row) ==
  <<row.fid, row.rarityScore, row.traits, row.json, row.png>>

\* C20: the final index has the rows of the initial index in the same order,
\* with the same fid, rarityScore, traits, json and png in every row; only
\* signature and sig_error may differ.
C20_RewriteKeepsEntryColumns ==
  (pc = "done" /\ indexWrites = 2) =>
    /\ Len(indexFile) = Len(firstIndex)
    /\ \A a \in DOMAIN indexFile :
         EntryColumns(indexFile[a]) = EntryColumns(firstIndex[a])

\* A finished run whose final index has two or more rows: one with a png
\* that gained a signature in the rewrite, and one without signature.
C20_Witness ==
  /\ pc = "done" /\ indexWrites = 2
  /\ Len(firstIndex) >= 2
  /\ \E a \in DOMAIN indexFile :
       /\ indexFile[a].png # Blank
       /\ indexFile[a].signature # Blank
       /\ firstIndex[a].signature = Blank
  /\ \E a \in DOMAIN indexFile : indexFile[a].signature = Blank

====
